---------------------------- MODULE Spec2Model ----------------------------
(***************************************************************************)
(* Commit Assistant Agent: the commit-message validator, the diff          *)
(* simplification and the commit / pr commands of the three entry points   *)
(*   caa     src/caa.py                            (agent based)           *)
(*   direct  src/direct_commit.py                  (direct API call)       *)
(*   pkg     src/commit_assistant/direct_commit.py (packaged CLI)          *)
(*                                                                         *)
(* Text is modelled at two grains.  A commit message is a sequence of      *)
(* one-character strings, so that split(), `in' and len() are computed     *)
(* character by character.  A diff is the sequence of its lines            *)
(* (diff.split('\n')), each line a record [txt, len] holding the line's    *)
(* content (an identifier) and its number of characters; the code never    *)
(* looks inside a line of a diff.                                          *)
(***************************************************************************)
EXTENDS Integers, Sequences, FiniteSets, TLC

VARIABLES
    pc,          \* position of the running function / command
    message,     \* the candidate commit message (characters)
    config,      \* the loaded configuration (config.yaml)
    valid,       \* result of validate_commit_message
    diff,        \* the diff held by the command (lines)
    once,        \* the diff simplified once
    twice,       \* the simplification applied to its own output
    inv,         \* the invocation: entry point, command, flags, environment
    calls,       \* the diffs sent to the API, in order
    out,         \* what the command has echoed, in order
    exit_status, \* the process's exit status (-1 while running)
    error_str    \* str(api_error) of the first failed agent.run

vars == <<pc, message, config, valid, diff, once, twice, inv, calls, out,
          exit_status, error_str>>

NONE == "none"

---------------------------------------------------------------------------
(* Bounds                                                                  *)

\* longest enumerated commit message, in characters
MaxMsgLen == 4
\* largest enumerated commit.max_header_length (50 is added for the examples)
MaxHeader == 3
\* most lines of an enumerated diff
MaxLines == 22
\* the longest API response to the pr command, in tokens
MaxPrLen == 6

---------------------------------------------------------------------------
(* Character strings                                                       *)

NL == "\n"
Chars == {"f", ":", "(", NL}

\* s[i..j] as Python's s[i-1:j]
Slice(s, i, j) == IF j < i THEN <<>> ELSE SubSeq(s, i, j)

\* c in s
Contains(s, c) == \E i \in 1..Len(s) : s[i] = c

\* position of the first c in s, Len(s)+1 when there is none
FirstIndex(s, c) ==
    IF Contains(s, c)
    THEN CHOOSE i \in 1..Len(s) : s[i] = c /\ \A j \in 1..(i-1) : s[j] # c
    ELSE Len(s) + 1

\* s.split(c)[0]: the text before the first c, all of s when c is absent
SplitFirst(s, c) == Slice(s, 1, FirstIndex(s, c) - 1)

RECURSIVE StringsUpTo(_)
StringsUpTo(n) ==
    IF n = 0 THEN {<<>>}
    ELSE LET shorter == StringsUpTo(n - 1)
         IN  shorter \cup {Append(s, c) : s \in {t \in shorter : Len(t) = n - 1},
                                            c \in Chars}

\* the examples of the specification, character by character
FeatAddX    == <<"f","e","a","t",":"," ","a","d","d"," ","x">>
FeatureAddX == <<"f","e","a","t","u","r","e",":"," ","a","d","d"," ","x">>
FeatCliAddX == <<"f","e","a","t","(","c","l","i",")",":"," ","a","d","d"," ","x">>
Feat        == <<"f","e","a","t">>
Fix         == <<"f","i","x">>

Messages == StringsUpTo(MaxMsgLen) \cup {FeatAddX, FeatureAddX, FeatCliAddX}

TypeSets == (SUBSET {<<>>, <<"f">>, <<"f","f">>}) \cup {{Feat}, {Feat, Fix}}

HeaderLengths == (0..MaxHeader) \cup {50}

Configs == [types : TypeSets, max_header_length : HeaderLengths]

---------------------------------------------------------------------------
(* validate_commit_message: src/caa.py 82-91, and the identical copies      *)
(* src/direct_commit.py 39-48, src/commit_assistant/direct_commit.py 46-55  *)

\* a plausible slip: the scope is not cut off the type
commit_type_keep_scope(m) ==
    IF Contains(m, ":") THEN SplitFirst(m, ":") ELSE <<>>

\* line 90: message.split(":")[0].split("(")[0] if ":" in message else ""
commit_type(m) ==
    IF Contains(m, ":") THEN SplitFirst(SplitFirst(m, ":"), "(") ELSE <<>>

\* a plausible slip: the empty message is not rejected
validate_no_empty_check(m, c) ==
    IF Len(SplitFirst(m, NL)) > c.max_header_length
    THEN FALSE
    ELSE commit_type(m) \in c.types

\* a plausible slip: >= for >
validate_off_by_one(m, c) ==
    IF m = <<>> \/ Len(SplitFirst(m, NL)) >= c.max_header_length
    THEN FALSE
    ELSE commit_type(m) \in c.types

\* lines 86-91
validate_commit_message(m, c) ==
    IF m = <<>> \/ Len(SplitFirst(m, NL)) > c.max_header_length
    THEN FALSE
    ELSE commit_type(m) \in c.types

---------------------------------------------------------------------------
(* Diffs and their simplification: src/caa.py 113-120, and the identical    *)
(* copies src/direct_commit.py 96-103 and                                   *)
(* src/commit_assistant/direct_commit.py 165-172 (commit), 236-243 (pr)     *)

\* len(diff) > 1000
Threshold == 1000
\* lines[:10], lines[-10:]
KeepLines == 10
\* len("... [diff truncated for API compatibility] ...")
MarkerLen == 46

Min(a, b) == IF a < b THEN a ELSE b
Max(a, b) == IF a < b THEN b ELSE a

\* a line of a diff; every empty line is the same line
Line(k, n) == IF n = 0 THEN [txt |-> 0, len |-> 0] ELSE [txt |-> k, len |-> n]
EmptyLine  == Line(0, 0)
MarkerLine == Line(-1, MarkerLen)

\* the empty string, split into lines
EmptyText == <<EmptyLine>>

RECURSIVE SumLen(_)
SumLen(lines) ==
    IF lines = <<>> THEN 0 ELSE Head(lines).len + SumLen(Tail(lines))

\* len(text): the characters of the lines and the newlines between them
StrLen(lines) == SumLen(lines) + (Len(lines) - 1)

\* lines[:10]
first_10_lines(lines) == SubSeq(lines, 1, Min(KeepLines, Len(lines)))

\* lines[-10:]
last_10_lines(lines) ==
    SubSeq(lines, Max(1, Len(lines) - KeepLines + 1), Len(lines))

\* a plausible slip: the marker follows the first lines directly
diff_summary_no_blank(lines) ==
    first_10_lines(lines) \o <<MarkerLine>> \o last_10_lines(lines)

\* lines 115-118: f"{first_10_lines}\n\n... [...] ...\n\n{last_10_lines}"
diff_summary(lines) ==
    first_10_lines(lines) \o <<EmptyLine, MarkerLine, EmptyLine>>
        \o last_10_lines(lines)

\* a plausible slip: >= for >
simplify_off_by_one(simplified, d) ==
    IF simplified /\ StrLen(d) >= Threshold THEN diff_summary(d) ELSE d

\* lines 114-119: if simplified and len(diff) > 1000: diff = diff_summary
simplify(simplified, d) ==
    IF simplified /\ StrLen(d) > Threshold THEN diff_summary(d) ELSE d

\* the enumerated diffs: n lines, the first of w1 characters and the others
\* of w, each line with a content of its own
Widths == {0, 1, 47, 48, 100, 998, 1000, 1001}

DiffOf(n, w1, w) == [i \in 1..n |-> Line(i, IF i = 1 THEN w1 ELSE w)]

Diffs == {DiffOf(n, w1, w) : n \in 1..MaxLines, w1 \in Widths, w \in Widths}
             \ {EmptyText}

InitSimplify ==
    /\ pc = "simplify"
    /\ diff \in Diffs
    /\ once = NONE /\ twice = NONE
    /\ message = NONE /\ config = NONE /\ valid = NONE
    /\ inv = NONE /\ calls = <<>> /\ out = <<>>
    /\ exit_status = -1 /\ error_str = NONE

\* the simplification of the diff, as --simplified asks for it
SimplifyOnce ==
    /\ pc = "simplify"
    /\ once' = simplify(TRUE, diff)
    /\ pc' = "again"
    /\ UNCHANGED <<message, config, valid, diff, twice, inv, calls, out,
                   exit_status, error_str>>

\* the simplification of its own output
SimplifyTwice ==
    /\ pc = "again"
    /\ twice' = simplify(TRUE, once)
    /\ pc' = "simplified"
    /\ UNCHANGED <<message, config, valid, diff, once, inv, calls, out,
                   exit_status, error_str>>

NextSimplify == SimplifyOnce \/ SimplifyTwice

SpecSimplify == InitSimplify /\ [][NextSimplify]_vars

---------------------------------------------------------------------------
(* The validator applied to every enumerated message and configuration      *)

InitValidate ==
    /\ pc = "validate"
    /\ message \in Messages
    /\ config \in Configs
    /\ valid = NONE
    /\ diff = NONE /\ once = NONE /\ twice = NONE
    /\ inv = NONE /\ calls = <<>> /\ out = <<>>
    /\ exit_status = -1 /\ error_str = NONE

Validate ==
    /\ pc = "validate"
    /\ valid' = validate_commit_message(message, config)
    /\ pc' = "validated"
    /\ UNCHANGED <<message, config, diff, once, twice, inv, calls, out,
                   exit_status, error_str>>

SpecValidate == InitValidate /\ [][Validate]_vars

---------------------------------------------------------------------------
(* The commands.  An invocation is fixed at Init: the entry point, the      *)
(* command and its flags, the configuration files present, the            *)
(* environment, and the diff git returns.  The API's answers are chosen     *)
(* when a call is made.                                                     *)

Whitespace == {" ", NL}

\* s.strip()
RECURSIVE LStrip(_)
LStrip(s) ==
    IF s # <<>> /\ Head(s) \in Whitespace THEN LStrip(Tail(s)) ELSE s

RECURSIVE RStrip(_)
RStrip(s) ==
    IF s # <<>> /\ s[Len(s)] \in Whitespace
    THEN RStrip(SubSeq(s, 1, Len(s) - 1)) ELSE s

Strip(s) == RStrip(LStrip(s))

\* '\n'.join(lines), for lines of characters
RECURSIVE Join(_)
Join(lines) ==
    IF lines = <<>> THEN <<>>
    ELSE IF Len(lines) = 1 THEN Head(lines)
    ELSE Head(lines) \o <<NL>> \o Join(Tail(lines))

\* provider.name.upper(), for the provider names of the model
Upper(name) ==
    CASE name = "deepseek" -> "DEEPSEEK"
      [] name = "DeepSeek" -> "DEEPSEEK"
      [] name = "openai"   -> "OPENAI"

Providers == {"deepseek", "DeepSeek", "openai"}

\* f"{provider_config['name'].upper()}_API_KEY"
ApiKeyVar(name) == <<Upper(name), "_API_KEY">>

\* the literal "DEEPSEEK_API_KEY"
DEEPSEEK_API_KEY == <<"DEEPSEEK", "_API_KEY">>

EnvVars == {<<"DEEPSEEK", "_API_KEY">>, <<"OPENAI", "_API_KEY">>}

\* the configuration the commands load: one type, f, and headers of two
\* characters at most
LoadedConfig(name) ==
    [types |-> {<<"f">>}, max_header_length |-> 2, provider |-> name]

\* what git may return: nothing, 1000 characters on one line, 1001 characters
\* on one line, 12 lines of 100 characters, MaxLines lines of 100 characters
RepoDiffs ==
    {EmptyText, DiffOf(1, 1000, 0), DiffOf(1, 1001, 0), DiffOf(12, 100, 100),
     DiffOf(MaxLines, 100, 100)}

\* the commands of each entry point and the flags each takes
Commands ==
    [entry : {"caa", "direct", "pkg"}, cmd : {"commit"},
     simplified : BOOLEAN, force : BOOLEAN]
    \cup [entry : {"pkg"}, cmd : {"pr"}, simplified : BOOLEAN, force : {FALSE}]
    \cup [entry : {"caa"}, cmd : {"pr"}, simplified : {FALSE}, force : {FALSE}]

Invocations ==
    { [entry |-> c.entry, cmd |-> c.cmd, simplified |-> c.simplified,
       force |-> c.force, files |-> f, provider |-> p, env |-> e,
       repo_diff |-> d] :
      c \in Commands, f \in SUBSET {"local", "package"}, p \in Providers,
      e \in SUBSET EnvVars, d \in RepoDiffs }

\* what the API's text may be, before .strip(): nothing, blanks, "f:" (valid
\* under LoadedConfig), the same with newlines around it, "(:" (invalid)
ApiResponses ==
    {<<>>, <<" ">>, <<"f", ":">>, <<NL, "f", ":", NL>>, <<"(", ":">>}

\* click.echo: to stdout, or to stderr with err=True; msg is the message the
\* line shows, if it shows one
Echo(what)    == [ch |-> "stdout", what |-> what, msg |-> <<>>]
Err(what)     == [ch |-> "stderr", what |-> what, msg |-> <<>>]
Show(what, m) == [ch |-> "stdout", what |-> what, msg |-> m]

Finish(status) == pc' = "done" /\ exit_status' = status

\* the configuration of a command that has not loaded one
NoConfig == [types |-> {}, max_header_length |-> 0, provider |-> NONE]

InitCommand ==
    /\ pc = "load_config"
    /\ inv \in Invocations
    /\ config = NoConfig
    /\ message = <<>> /\ error_str = <<>> /\ valid = NONE
    /\ diff = EmptyText /\ once = NONE /\ twice = NONE
    /\ calls = <<>> /\ out = <<>>
    /\ exit_status = -1

\* load_config: src/caa.py 16-23, src/direct_commit.py 16-23 (config.yaml of
\* the current directory), src/commit_assistant/direct_commit.py 16-30 (the
\* same, else the package's config.yaml)
config_exists ==
    IF inv.entry = "pkg" THEN inv.files # {} ELSE "local" \in inv.files

load_config ==
    /\ pc = "load_config"
    /\ IF config_exists
       THEN /\ config' = LoadedConfig(inv.provider)
            /\ pc' = "get_diff"
            /\ UNCHANGED <<out, exit_status>>
       ELSE /\ out' = Append(out, Err("config_not_found"))
            /\ Finish(1)
            /\ UNCHANGED config
    /\ UNCHANGED <<message, valid, diff, once, twice, inv, calls, error_str>>

\* get_diff without the test for an empty diff
get_diff_no_empty_check ==
    /\ pc = "get_diff"
    /\ diff' = simplify(inv.simplified, inv.repo_diff)
    /\ out' = IF inv.simplified /\ StrLen(inv.repo_diff) > Threshold
              THEN Append(out, Echo("using_simplified_diff"))
              ELSE out
    /\ pc' = "api_key"
    /\ UNCHANGED exit_status
    /\ UNCHANGED <<message, config, valid, once, twice, inv, calls, error_str>>

\* the diff is obtained, an empty one ends the command (not in caa's pr),
\* and --simplified shortens a long one:
\* src/caa.py 108-120 and 259, src/direct_commit.py 91-103,
\* src/commit_assistant/direct_commit.py 160-172 and 231-243
get_diff ==
    /\ pc = "get_diff"
    /\ IF inv.repo_diff = EmptyText /\ ~(inv.entry = "caa" /\ inv.cmd = "pr")
       THEN /\ out' = Append(out, Echo("no_changes"))
            /\ Finish(0)
            /\ UNCHANGED diff
       ELSE /\ diff' = simplify(inv.simplified, inv.repo_diff)
            /\ out' = IF inv.simplified /\ StrLen(inv.repo_diff) > Threshold
                      THEN Append(out, Echo("using_simplified_diff"))
                      ELSE out
            /\ pc' = "api_key"
            /\ UNCHANGED exit_status
    /\ UNCHANGED <<message, config, valid, once, twice, inv, calls, error_str>>


KeyNotFound == Err("api_key_not_found")

\* get_agent: src/caa.py 25-66.  The key is looked up under the configured
\* provider's name; building the agent may fail in the library.
get_agent ==
    /\ pc = "api_key"
    /\ inv.entry = "caa"
    /\ IF ApiKeyVar(config.provider) \notin inv.env
       THEN /\ out' = Append(out, KeyNotFound)
            /\ Finish(1)
       ELSE \E built \in BOOLEAN :
               IF built
               THEN /\ pc' = "call"
                    /\ UNCHANGED <<out, exit_status>>
               ELSE /\ out' = Append(out, Err("agent_init_error"))
                    /\ Finish(1)
    /\ UNCHANGED <<message, config, valid, diff, once, twice, inv, calls,
                   error_str>>

\* the variable the direct commands read the key from: the provider's in
\* src/direct_commit.py 106-107, the literal DEEPSEEK_API_KEY in
\* src/commit_assistant/direct_commit.py 175 and 98
direct_key_var ==
    IF inv.entry = "pkg" THEN DEEPSEEK_API_KEY ELSE ApiKeyVar(config.provider)

\* src/direct_commit.py 105-110, src/commit_assistant/direct_commit.py 174-178
commit_api_key ==
    /\ pc = "api_key"
    /\ inv.entry \in {"direct", "pkg"} /\ inv.cmd = "commit"
    /\ IF direct_key_var \notin inv.env
       THEN /\ out' = Append(out, KeyNotFound)
            /\ Finish(1)
       ELSE /\ pc' = "call"
            /\ UNCHANGED <<out, exit_status>>
    /\ UNCHANGED <<message, config, valid, diff, once, twice, inv, calls,
                   error_str>>

\* generate_pr_content's key check and what pr does with its (None, None):
\* src/commit_assistant/direct_commit.py 98-101, 245-255
pr_api_key ==
    /\ pc = "api_key"
    /\ inv.entry = "pkg" /\ inv.cmd = "pr"
    /\ IF direct_key_var \notin inv.env
       THEN /\ out' = out \o <<KeyNotFound, Err("pr_failed")>>
            /\ Finish(0)
       ELSE /\ pc' = "call"
            /\ UNCHANGED <<out, exit_status>>
    /\ UNCHANGED <<message, config, valid, diff, once, twice, inv, calls,
                   error_str>>

---------------------------------------------------------------------------
(* call_deepseek_api: src/direct_commit.py 50-79 and                        *)
(* src/commit_assistant/direct_commit.py 57-86                              *)

\* how a request may end: the content of a well-formed answer, no connection
\* (requests.post raises), a status other than 200, a body that is not JSON,
\* JSON without choices[0].message.content (KeyError, IndexError), JSON of
\* another shape (TypeError, AttributeError)
HttpFailures == {"transport", "status", "not_json", "shape", "type"}

HttpOutcomes(contents) ==
    {[kind |-> "ok", content |-> c] : c \in contents}
    \cup {[kind |-> k, content |-> <<>>] : k \in HttpFailures}

\* the result: the stripped message, or None (ok = FALSE) with what was
\* echoed, or the exception that leaves the function (raised = TRUE)
Returned(m)  == [raised |-> FALSE, ok |-> TRUE, message |-> m, events |-> <<>>]
ReturnedNone(e) ==
    [raised |-> FALSE, ok |-> FALSE, message |-> <<>>, events |-> <<e>>]
Raised == [raised |-> TRUE, ok |-> FALSE, message |-> <<>>, events |-> <<>>]

call_deepseek_api(entry, o) ==
    IF entry = "direct"
    THEN CASE o.kind = "ok"        -> Returned(Strip(o.content))
           [] o.kind = "transport" -> Raised
           [] o.kind = "status"    -> ReturnedNone(Err("api_error"))
           [] OTHER                -> ReturnedNone(Err("parse_error"))
    ELSE CASE o.kind = "ok"        -> Returned(Strip(o.content))
           [] o.kind \in {"transport", "status"}
                                   -> ReturnedNone(Err("api_request_error"))
           [] o.kind \in {"not_json", "shape"}
                                   -> ReturnedNone(Err("parse_error"))
           [] OTHER                -> Raised

\* a message that fails validation is refused unless --force is given
Refused(m) == ~validate_commit_message(m, config) /\ ~inv.force

\* src/direct_commit.py 136-147, src/commit_assistant/direct_commit.py 204-215
direct_commit_result(m) ==
    IF m = <<>>
    THEN <<Err("failed_to_generate")>>
    ELSE IF Refused(m)
         THEN <<Err("not_conventional"), Err("run_with_force")>>
         ELSE <<Show("generated_commit_message", m)>>

\* the commit command of the direct entry points, from the API call on:
\* src/direct_commit.py 133-147, src/commit_assistant/direct_commit.py 201-215
direct_commit_call ==
    /\ pc = "call"
    /\ inv.entry \in {"direct", "pkg"} /\ inv.cmd = "commit"
    /\ calls' = Append(calls, diff)
    /\ \E o \in HttpOutcomes(ApiResponses) :
          LET r == call_deepseek_api(inv.entry, o)
          IN  IF r.raised
              THEN /\ out' = Append(out, Err("traceback"))
                   /\ Finish(1)
                   /\ UNCHANGED message
              ELSE /\ message' = r.message
                   /\ out' = out \o r.events \o direct_commit_result(r.message)
                   /\ Finish(0)
    /\ UNCHANGED <<config, valid, diff, once, twice, inv, error_str>>


---------------------------------------------------------------------------
(* The pr command of the packaged CLI:                                      *)
(* src/commit_assistant/direct_commit.py 97-139, 245-255                    *)
(* A response is a sequence of tokens: the literals "TITLE:" and            *)
(* "\nDESCRIPTION:", blanks, newlines and other characters.                 *)

TITLE       == "TITLE:"
DESCRIPTION == "DESCRIPTION:"

\* "\nDESCRIPTION:", the separator of line 132
Marker == <<NL, DESCRIPTION>>

\* s.replace(t, "")
RECURSIVE Remove(_, _)
Remove(s, t) ==
    IF s = <<>> THEN <<>>
    ELSE IF Head(s) = t THEN Remove(Tail(s), t)
    ELSE <<Head(s)>> \o Remove(Tail(s), t)

\* the positions where t occurs in s
Occurrences(s, t) ==
    {i \in 1..(Len(s) - Len(t) + 1) : SubSeq(s, i, i + Len(t) - 1) = t}

\* response.rsplit("\nDESCRIPTION:", 1): the split at the last marker
parts_at_last_marker(response) ==
    LET at == Occurrences(response, Marker)
        i  == CHOOSE k \in at : \A j \in at : j <= k
    IN  IF at = {} THEN <<response>>
        ELSE <<Slice(response, 1, i - 1),
               Slice(response, i + Len(Marker), Len(response))>>

\* line 132, response.split("\nDESCRIPTION:", 1): the text before the first
\* marker and the text after it, or the response alone without a marker
parts(response) ==
    LET at == Occurrences(response, Marker)
        i  == CHOOSE k \in at : \A j \in at : k <= j
    IN  IF at = {} THEN <<response>>
        ELSE <<Slice(response, 1, i - 1),
               Slice(response, i + Len(Marker), Len(response))>>

\* line 133
pr_title(response) == Strip(Remove(parts(response)[1], TITLE))

\* line 134
pr_description(response) ==
    IF Len(parts(response)) > 1 THEN Strip(parts(response)[2]) ELSE <<>>

PrResponses ==
    { <<>>,
      <<TITLE, NL, "t", NL, NL, DESCRIPTION, NL, "d">>,
      <<TITLE, NL, "t">>,
      <<TITLE, NL, DESCRIPTION, NL, "d">>,
      <<"t", NL, DESCRIPTION>> }

\* lines 247-255: the content is printed when both parts are non-empty
pr_result(title, description) ==
    IF title # <<>> /\ description # <<>>
    THEN <<Show("generated_pr_content", <<title, description>>)>>
    ELSE <<Err("pr_failed")>>

\* lines 129-139 and 245-255: what the pr command echoes for a response
generate_pr_content(response) ==
    IF response # <<>>
    THEN pr_result(pr_title(response), pr_description(response))
    ELSE <<Err("pr_failed")>>

pkg_pr_call ==
    /\ pc = "call"
    /\ inv.entry = "pkg" /\ inv.cmd = "pr"
    /\ calls' = Append(calls, diff)
    /\ \E o \in HttpOutcomes(PrResponses) :
          LET r == call_deepseek_api(inv.entry, o)
          IN  IF r.raised
              THEN /\ out' = Append(out, Err("traceback"))
                   /\ Finish(1)
              ELSE /\ out' = out \o r.events
                                 \o generate_pr_content(r.message)
                   /\ Finish(0)
    /\ UNCHANGED <<message, config, valid, diff, once, twice, inv, error_str>>

\* The parsing of the pr command's response alone, over every content the
\* API can return up to MaxPrLen tokens.
PrTokens == {TITLE, DESCRIPTION, NL, " ", "t"}

PrContents == UNION {[1..n -> PrTokens] : n \in 0..MaxPrLen}

InitPr ==
    /\ pc = "pr_response"
    /\ message \in PrContents
    /\ config = NONE /\ valid = NONE
    /\ diff = NONE /\ once = NONE /\ twice = NONE
    /\ inv = NONE /\ calls = <<>> /\ out = <<>>
    /\ exit_status = -1 /\ error_str = NONE

\* the API has answered with the content in message
ParsePr ==
    /\ pc = "pr_response"
    /\ LET r == call_deepseek_api("pkg", [kind |-> "ok", content |-> message])
       IN  out' = generate_pr_content(r.message)
    /\ Finish(0)
    /\ UNCHANGED <<message, config, valid, diff, once, twice, inv, calls,
                   error_str>>

SpecPr == InitPr /\ [][ParsePr]_vars

---------------------------------------------------------------------------
(* The agent based commands: src/caa.py 104-313                             *)
(* str(api_error) is a sequence of lines; a line holds the phrases the code *)
(* looks for (tags) and its text.                                           *)

ErrLine(tags, text) == [tags |-> tags, text |-> text]

HasTag(e, t) == \E i \in 1..Len(e) : t \in e[i].tags

\* "deserialize" in error_str.lower() or "json" in error_str.lower()
IsJsonError(e) == HasTag(e, "json")

\* line 163
HoldsCodeSnippet(e) ==
    HasTag(e, "code parsing") /\ (HasTag(e, "snippet:") \/ HasTag(e, "snippet"))

\* lines 165-181: the non-blank lines after "Here is your code snippet:" up
\* to "Make sure to include code", stripped
RECURSIVE message_lines(_, _)
message_lines(lines, found_marker) ==
    IF lines = <<>> THEN <<>>
    ELSE LET line == Head(lines)
         IN  IF "snippet:" \in line.tags
             THEN message_lines(Tail(lines), TRUE)
             ELSE (IF found_marker /\ Strip(line.text) # <<>>
                        /\ "make sure" \notin line.tags
                   THEN <<Strip(line.text)>> ELSE <<>>)
                  \o (IF found_marker /\ "make sure" \in line.tags
                      THEN <<>>
                      ELSE message_lines(Tail(lines), found_marker))

\* lines 226-247 and 290-310
hint(e) ==
    IF IsJsonError(e) THEN Err("hint_json")
    ELSE IF HasTag(e, "rate") /\ HasTag(e, "limit") THEN Err("hint_rate_limit")
    ELSE IF HasTag(e, "authentication") THEN Err("hint_authentication")
    ELSE Err("hint_unexpected")

Parsing   == ErrLine({"code parsing"}, <<"#">>)
Snippet   == ErrLine({"snippet:"}, <<"#">>)
SnippetNC == ErrLine({"snippet"}, <<"#">>)
MakeSure  == ErrLine({"make sure"}, <<"#">>)
Text(t)   == ErrLine({}, t)

\* the error texts agent.run may raise
ApiErrors ==
    { <<ErrLine({"json"}, <<"#">>)>>,
      <<ErrLine({"rate", "limit"}, <<"#">>)>>,
      <<ErrLine({"authentication"}, <<"#">>)>>,
      <<Text(<<"#">>)>>,
      <<Parsing, Snippet, Text(<<" ", "f", ":">>), Text(<<" ">>), MakeSure,
        Text(<<"#">>)>>,
      <<Parsing, Snippet, Text(<<"(", ":">>), MakeSure>>,
      <<Parsing, Snippet, Text(<<"(", ":">>), ErrLine({"json"}, <<"#">>)>>,
      <<Parsing, SnippetNC, Text(<<"f", ":">>), MakeSure>>,
      <<Parsing, Snippet, Text(<<" ">>), MakeSure>> }

AgentOutcomes ==
    {[kind |-> "response", content |-> c, error |-> <<>>] : c \in ApiResponses}
    \cup {[kind |-> "error", content |-> <<>>, error |-> e] : e \in ApiErrors}

\* lines 148-157 and 211-220: the response is validated, then echoed
commit_response(m, heading) ==
    IF Refused(m) THEN <<Err("not_conventional")>> ELSE <<Show(heading, m)>>

\* lines 162-197: the message found in the error text is echoed, then
\* validated; the command returns when it is valid or forced
extracted(e) ==
    IF HoldsCodeSnippet(e) THEN Join(message_lines(e, FALSE)) ELSE <<>>

extraction(e) ==
    LET m == extracted(e)
    IN  IF m = <<>> THEN <<>>
        ELSE <<Show("extracted_commit_message", m)>> \o
             (IF ~Refused(m)
              THEN <<Echo("extracted_successfully")>>
              ELSE <<Err("extracted_not_conventional"), Err("run_with_force")>>)

\* the command returns at line 192
extraction_returns(e) == extracted(e) # <<>> /\ ~Refused(extracted(e))

\* a plausible slip: the retry does not look at --simplified
retries_simplified_too(e) == IsJsonError(e)

\* line 200
retries(e) == ~inv.simplified /\ IsJsonError(e)

\* commit, from agent.run to the return or the retry
caa_commit_run ==
    /\ pc = "call"
    /\ inv.entry = "caa" /\ inv.cmd = "commit"
    /\ calls' = Append(calls, diff)
    /\ \E o \in AgentOutcomes :
          IF o.kind = "response"
          THEN /\ message' = Strip(o.content)
               /\ out' = out \o
                     commit_response(Strip(o.content), "generated_commit_message")
               /\ Finish(0)
               /\ UNCHANGED error_str
          ELSE /\ error_str' = o.error
               /\ message' = extracted(o.error)
               /\ IF extraction_returns(o.error)
                  THEN /\ out' = out \o <<Err("api_error")>> \o extraction(o.error)
                       /\ Finish(0)
                  ELSE IF retries(o.error)
                  THEN /\ out' = out \o <<Err("api_error")>>
                                 \o extraction(o.error) \o <<Err("trying_again")>>
                       /\ pc' = "retry"
                       /\ UNCHANGED exit_status
                  ELSE /\ out' = out \o <<Err("api_error")>>
                                 \o extraction(o.error) \o <<hint(o.error)>>
                       /\ Finish(0)
    /\ UNCHANGED <<config, valid, diff, once, twice, inv>>

\* lines 201-223, then 226-232: the second call, with the summary of the diff
caa_commit_retry ==
    /\ pc = "retry"
    /\ calls' = Append(calls, diff_summary(diff))
    /\ \E o \in AgentOutcomes :
          IF o.kind = "response"
          THEN /\ message' = Strip(o.content)
               /\ out' = out \o
                     commit_response(Strip(o.content),
                                     "generated_commit_message_simplified")
          ELSE /\ out' = out \o <<Err("simplified_diff_error"), hint(error_str)>>
               /\ UNCHANGED message
    /\ Finish(0)
    /\ UNCHANGED <<config, valid, diff, once, twice, inv, error_str>>

\* pr: src/caa.py 278-310
caa_pr_run ==
    /\ pc = "call"
    /\ inv.entry = "caa" /\ inv.cmd = "pr"
    /\ calls' = Append(calls, diff)
    /\ \E o \in AgentOutcomes :
          IF o.kind = "response"
          THEN out' = Append(out, Show("generated_pull_request", o.content))
          ELSE out' = out \o <<Err("api_error"), hint(o.error)>>
    /\ Finish(0)
    /\ UNCHANGED <<message, config, valid, diff, once, twice, inv, error_str>>

Next ==
    \/ load_config
    \/ get_diff
    \/ get_agent
    \/ commit_api_key
    \/ pr_api_key
    \/ direct_commit_call
    \/ pkg_pr_call
    \/ caa_commit_run
    \/ caa_commit_retry
    \/ caa_pr_run

Spec == InitCommand /\ [][Next]_vars

\* a command is one sequential process: it takes its next step as long as it
\* has one (every call returns or raises)
FairSpec == Spec /\ WF_vars(Next)


\* what the claims call the header: the text before the first newline
Header(m) == SplitFirst(m, NL)

\* the type as the specification words it: the header's text before its first
\* colon, cut at the first "(" of that text
HeaderType(m) == SplitFirst(SplitFirst(Header(m), ":"), "(")


\* C1: validate_commit_message returns false for the empty message, whatever
\* config.commit.types holds, the empty string included.
C1_EmptyMessageRejected ==
    (pc = "validated" /\ message = <<>>) => valid = FALSE

\* the empty message was validated against types that hold the empty string
C1_Witness ==
    /\ pc = "validated"
    /\ message = <<>>
    /\ <<>> \in config.types
    /\ valid = FALSE

\* C2: a header longer than max_header_length is rejected whatever its type
\* and whatever follows the header; a header of exactly max_header_length is
\* not rejected for its length: the type alone decides.
C2_LongHeaderRejected ==
    pc = "validated" =>
        /\ Len(Header(message)) > config.max_header_length => valid = FALSE
        /\ ( /\ message # <<>>
             /\ Len(Header(message)) = config.max_header_length
             /\ Contains(Header(message), ":") )
           => valid = (HeaderType(message) \in config.types)

\* a too long header with an allowed type and a second line was rejected
C2_Witness ==
    /\ pc = "validated"
    /\ Len(Header(message)) > config.max_header_length
    /\ Contains(Header(message), ":")
    /\ HeaderType(message) \in config.types
    /\ Contains(message, NL)
    /\ valid = FALSE

\* C3: for a non-empty message whose header is within max_header_length and
\* holds a colon, the result is true iff the header's text before its first
\* colon, cut at the first "(", is one of config.commit.types; with the three
\* examples of the specification.
C3_TypeDecides ==
    pc = "validated" =>
        /\ ( /\ message # <<>>
             /\ Len(Header(message)) <= config.max_header_length
             /\ Contains(Header(message), ":") )
           => valid = (HeaderType(message) \in config.types)
        /\ ( /\ message \in {FeatAddX, FeatCliAddX}
             /\ Feat \in config.types
             /\ config.max_header_length = 50 )
           => valid = TRUE
        /\ (message = FeatureAddX /\ config.types = {Feat, Fix})
           => valid = FALSE

\* "feat(cli): add x" was accepted with types {feat}
C3_Witness ==
    /\ pc = "validated"
    /\ message = FeatCliAddX
    /\ config.types = {Feat}
    /\ config.max_header_length = 50
    /\ valid = TRUE

\* C4: for a non-empty message whose header is within max_header_length and
\* holds no colon, the type is the empty string: the result is true iff the
\* empty string is one of config.commit.types, also when a later line holds
\* a colon.
C4_NoColonInHeader ==
    ( /\ pc = "validated"
      /\ message # <<>>
      /\ Len(Header(message)) <= config.max_header_length
      /\ ~Contains(Header(message), ":") )
    => valid = (<<>> \in config.types)

\* the same, for the messages that hold no colon at all
C4_NoColonAtAll ==
    ( /\ pc = "validated"
      /\ message # <<>>
      /\ Len(Header(message)) <= config.max_header_length
      /\ ~Contains(message, ":") )
    => valid = (<<>> \in config.types)


---------------------------------------------------------------------------
(* Claims about the simplification                                         *)

\* the positions of a diff whose line is kept by neither lines[:10] nor
\* lines[-10:]
Middle(d) == {i \in 1..Len(d) : i > KeepLines /\ i <= Len(d) - KeepLines}

\* the number of places at which a line stands in a text
Count(l, lines) == Cardinality({i \in 1..Len(lines) : lines[i] = l})

\* C5: the simplification with threshold 1000 is idempotent: applied to its
\* own output it returns that output, for every diff.
C5_Idempotent ==
    pc = "simplified" => twice = once

\* the same, for the diffs of at least 10 lines
C5_IdempotentFromTenLines ==
    (pc = "simplified" /\ Len(diff) >= KeepLines) => twice = once

\* the first and the last lines of a diff that the claims speak of: ten of
\* them, or all when the diff has fewer
Kept(d) == Min(KeepLines, Len(d))
KeptFirst(d) == [i \in 1..Kept(d) |-> d[i]]
KeptLast(d)  == [i \in 1..Kept(d) |-> d[Len(d) - Kept(d) + i]]
InBothParts(d) == {i \in 1..Len(d) : i <= Kept(d) /\ i > Len(d) - Kept(d)}
Removed(d)   == [i \in 1..Cardinality(Middle(d)) |-> d[KeepLines + i]]

\* C7 as stated: the simplified diff of a diff longer than the threshold is
\* the first 10 lines, the marker line, the last 10 lines and nothing else;
\* no line of the input appears twice, no middle line is left, and the output
\* is not longer than the input.
C7_FirstMarkerLastOnly ==
    (pc = "simplified" /\ StrLen(diff) > Threshold) =>
        /\ once = KeptFirst(diff) \o <<MarkerLine>> \o KeptLast(diff)
        /\ \A i \in 1..Len(diff) : Count(diff[i], once) <= 1
        /\ StrLen(once) <= StrLen(diff)

\* C7 as amended: the simplified diff of a diff longer than the threshold is
\* the first 10 lines (all when fewer), an empty line, the marker line, an
\* empty line, the last 10 lines (all when fewer); every line between the two
\* parts is removed; from 20 lines on no line of the input appears twice,
\* below 20 lines the lines that are in both parts appear twice; and the
\* output is not longer than the input exactly when the removed lines hold
\* 48 characters or more.
C7_FirstBlankMarkerBlankLast ==
    (pc = "simplified" /\ StrLen(diff) > Threshold) =>
        /\ once = KeptFirst(diff) \o <<EmptyLine, MarkerLine, EmptyLine>>
                      \o KeptLast(diff)
        /\ \A i \in Middle(diff) :
               diff[i] # EmptyLine => Count(diff[i], once) = 0
        /\ Len(diff) >= 2 * KeepLines =>
               \A i \in 1..Len(diff) :
                   diff[i] # EmptyLine => Count(diff[i], once) <= 1
        /\ Len(diff) < 2 * KeepLines =>
               /\ InBothParts(diff) # {}
               /\ \A i \in InBothParts(diff) :
                      diff[i] # EmptyLine => Count(diff[i], once) = 2
        /\ StrLen(once) =
               StrLen(KeptFirst(diff)) + StrLen(KeptLast(diff)) + MarkerLen + 4
        /\ (StrLen(once) <= StrLen(diff))
               <=> (Middle(diff) # {} /\ StrLen(Removed(diff)) >= MarkerLen + 2)

\* a diff of more than 20 lines lost its middle and became shorter
C7_Witness ==
    /\ pc = "simplified"
    /\ StrLen(diff) > Threshold
    /\ Len(diff) > 2 * KeepLines
    /\ Len(once) = 2 * KeepLines + 3
    /\ StrLen(once) < StrLen(diff)

---------------------------------------------------------------------------
(* Claims about the commands                                               *)

Echoed(whats) == \E i \in 1..Len(out) : out[i].what \in whats

\* the echoes that show a commit message
CommitMessageShown(i) ==
    /\ inv.cmd = "commit"
    /\ out[i].what \in {"generated_commit_message",
                        "generated_commit_message_simplified",
                        "extracted_commit_message"}

\* C6: with --simplified, a diff of at most 1000 characters (1000 included)
\* is sent to the API unchanged, by every commit command and by the branch
\* pr command.
C6_ShortDiffSentUnchanged ==
    (inv.simplified /\ StrLen(inv.repo_diff) <= Threshold) =>
        \A i \in 1..Len(calls) : calls[i] = inv.repo_diff

\* the branch pr command sent a diff of exactly 1000 characters
C6_Witness ==
    /\ inv.simplified
    /\ inv.entry = "pkg" /\ inv.cmd = "pr"
    /\ StrLen(inv.repo_diff) = Threshold
    /\ Len(calls) = 1

\* C8: a commit invocation whose message fails validation without --force
\* ends with a non-zero exit status.
C8_RefusedExitsNonZero ==
    ( /\ pc = "done"
      /\ inv.cmd = "commit"
      /\ ~inv.force
      /\ message # <<>>
      /\ ~validate_commit_message(message, config)
      /\ Echoed({"not_conventional", "extracted_not_conventional"}) )
    => exit_status # 0

\* C9: without --force, a commit message that fails validation is never
\* shown, on any path that obtains one (the response, the error text, the
\* retry), and an error notice is emitted instead.
C9_RefusedNeverShown ==
    (inv.cmd = "commit" /\ ~inv.force) =>
        /\ \A i \in 1..Len(out) :
               CommitMessageShown(i) =>
                   validate_commit_message(out[i].msg, config)
        /\ ( /\ pc = "done"
             /\ message # <<>>
             /\ ~validate_commit_message(message, config) )
           => Echoed({"not_conventional", "extracted_not_conventional"})

\* the same, for the messages of the response and of the retry
C9_ResponsesRefusedNeverShown ==
    (inv.cmd = "commit" /\ ~inv.force) =>
        \A i \in 1..Len(out) :
            (CommitMessageShown(i) /\ out[i].what # "extracted_commit_message")
                => validate_commit_message(out[i].msg, config)

\* C10: in every command, a configuration file or an API key found missing
\* ends the invocation at once with a non-zero exit status, and no API call
\* is made.
C10_MissingConfigOrKeyIsFatal ==
    Echoed({"config_not_found", "api_key_not_found"}) =>
        /\ pc = "done"
        /\ exit_status # 0
        /\ out[Len(out)].what \in {"config_not_found", "api_key_not_found"}
        /\ calls = <<>>

\* the same without the exit status and the immediacy: no API call is made
C10_MissingConfigOrKeyNoCall ==
    Echoed({"config_not_found", "api_key_not_found"}) =>
        pc = "done" /\ calls = <<>>

\* C11: in every command a failed API call is reported and the command then
\* ends normally: once a call was made, the invocation ends with exit status
\* 0 and no exception leaves it.
C11_ApiFailureNeverCrashes ==
    (pc = "done" /\ calls # <<>>) =>
        exit_status = 0 /\ ~Echoed({"traceback"})

\* the same, for the agent based commands, which catch every exception
C11_AgentFailureNeverCrashes ==
    (pc = "done" /\ calls # <<>> /\ inv.entry = "caa") =>
        exit_status = 0 /\ ~Echoed({"traceback"})

\* C12: an invocation makes at most two API calls, the second one only in
\* the agent based commit command, without --simplified, after a first call
\* that raised an error holding "deserialize" or "json"; and every
\* invocation comes to its end.
C12_Calls ==
    /\ Len(calls) <= 2
    /\ Len(calls) = 2 =>
           /\ inv.entry = "caa" /\ inv.cmd = "commit"
           /\ ~inv.simplified
           /\ IsJsonError(error_str)
    /\ pc = "retry" =>
           /\ Len(calls) = 1
           /\ inv.entry = "caa" /\ inv.cmd = "commit"
           /\ ~inv.simplified
           /\ IsJsonError(error_str)

C12_AtMostOneRetry == []C12_Calls /\ <>(pc = "done")

\* the agent based commit command ended after its retry
C12_Witness ==
    /\ pc = "done"
    /\ Len(calls) = 2
    /\ inv.entry = "caa" /\ inv.cmd = "commit"

\* C13: every command that needs an API key reads it from the variable
\* named by the configured provider.name in upper case followed by _API_KEY,
\* and from no other: the key is found missing exactly when that variable is
\* not set, and a call is made only when it is set.
C13_KeyVarFollowsProvider ==
    /\ Echoed({"api_key_not_found"}) => ApiKeyVar(inv.provider) \notin inv.env
    /\ pc \in {"call", "retry"} => ApiKeyVar(inv.provider) \in inv.env
    /\ calls # <<>> => ApiKeyVar(inv.provider) \in inv.env

\* the same, for src/caa.py and src/direct_commit.py
C13_KeyVarFollowsProviderOutsidePackage ==
    inv.entry # "pkg" =>
        /\ Echoed({"api_key_not_found"}) => ApiKeyVar(inv.provider) \notin inv.env
        /\ calls # <<>> => ApiKeyVar(inv.provider) \in inv.env

\* C14: the diff sent on the agent based commit command's retry is the
\* simplification, with threshold 1000, of the original diff: that diff
\* unchanged up to 1000 characters, its truncated form beyond.
C14_RetrySendsSimplifiedDiff ==
    Len(calls) = 2 => calls[2] = simplify(TRUE, inv.repo_diff)

\* the same, for the diffs of more than 1000 characters
C14_RetryTruncatesLongDiff ==
    (Len(calls) = 2 /\ StrLen(inv.repo_diff) > Threshold) =>
        calls[2] = simplify(TRUE, inv.repo_diff)

\* the commands that test the diff they obtained: commit of every entry
\* point and the packaged CLI's pr
ChecksForChanges == ~(inv.entry = "caa" /\ inv.cmd = "pr")

\* C15: when the diff obtained is empty, the commit command of every entry
\* point and the branch pr command print the 'no changes' notice and nothing
\* else, and end with status 0, no API call made and no API key looked for,
\* whether or not the key is set.
C15_EmptyDiffEndsQuietly ==
    (/\ ChecksForChanges
     /\ inv.repo_diff = EmptyText
     /\ config_exists
     /\ pc \notin {"load_config", "get_diff"}) =>
        /\ pc = "done"
        /\ out = <<Echo("no_changes")>>
        /\ calls = <<>>
        /\ exit_status = 0

\* C15 witness: the branch pr command has ended on an empty diff with no key
\* in the environment
C15_Witness ==
    /\ pc = "done"
    /\ inv.entry = "pkg" /\ inv.cmd = "pr"
    /\ inv.repo_diff = EmptyText
    /\ inv.env = {}
    /\ out = <<Echo("no_changes")>>

\* the response the pr command parses: the content, trimmed
Response == Strip(message)

\* where a newline is followed by DESCRIPTION: in r
MarkerAt(r) == {i \in 1..(Len(r) - 1) : r[i] = NL /\ r[i + 1] = DESCRIPTION}

FirstMarker(r) == CHOOSE i \in MarkerAt(r) : \A j \in MarkerAt(r) : i <= j

\* the part before the first marker, every TITLE: removed, trimmed
TitleOf(r) ==
    Strip(SelectSeq(Slice(r, 1, FirstMarker(r) - 1), LAMBDA x : x # TITLE))

\* the part after the first marker, trimmed
DescriptionOf(r) == Strip(Slice(r, FirstMarker(r) + 2, Len(r)))

\* C16: in the branch pr command the response is split at the first newline
\* followed by DESCRIPTION:, the title is the part before it with every TITLE:
\* removed and trimmed, the description the trimmed part after it; the PR
\* content is printed, with this title and this description, only when both
\* are non-empty; a response without the marker, or with an empty title or
\* description, gives 'Failed to generate PR content' and no PR content.
C16_PrParse ==
    pc = "done" =>
        IF /\ MarkerAt(Response) # {}
           /\ TitleOf(Response) # <<>>
           /\ DescriptionOf(Response) # <<>>
        THEN out = <<Show("generated_pr_content",
                          <<TitleOf(Response), DescriptionOf(Response)>>)>>
        ELSE out = <<Err("pr_failed")>>

\* C16 witness: a response with two markers has been parsed and printed, its
\* TITLE: removed and the second marker left in the description
C16_Witness ==
    /\ pc = "done"
    /\ message = <<TITLE, "t", NL, DESCRIPTION, NL, DESCRIPTION>>
    /\ out = <<Show("generated_pr_content", <<<<"t">>, <<DESCRIPTION>>>>)>>

=============================================================================
